---- MODULE Spec2Model ----
(***************************************************************************)
(* A model of image_resizer.py: the dimension computation of resize_image  *)
(* (Python int/float arithmetic, modelled bit-exactly as IEEE-754 binary64 *)
(* with round-to-nearest-even), the JPEG colour-mode handling of           *)
(* resize_image, and the batch loop of batch_resize_images.                *)
(***************************************************************************)
EXTENDS Integers, Sequences, FiniteSets, TLC

(***************************************************************************)
(* Bounds of the model.                                                    *)
(***************************************************************************)
\* Largest width and height of a source image drawn by InitResolve.
MaxSrc == 7
\* Largest requested width and height drawn by InitResolve (0 models None).
MaxTarget == 11

(***************************************************************************)
(* Python's float is an IEEE-754 binary64: a 53-bit significand.  TLC's    *)
(* integers are 32 bits wide, so a significand is kept as four limbs of    *)
(* 15 bits, least significant limb first.                                  *)
(***************************************************************************)
MantBits == 53
LimbBits == 15
LimbBase == 2^LimbBits

BigZero == <<0, 0, 0, 0>>

BigFromInt(n) ==
    <<n % LimbBase, (n \div LimbBase) % LimbBase, n \div (LimbBase * LimbBase), 0>>

BigToInt(x) == x[1] + LimbBase * x[2] + LimbBase * LimbBase * x[3]

BigGeq(x, y) ==
    IF x[4] # y[4] THEN x[4] > y[4]
    ELSE IF x[3] # y[3] THEN x[3] > y[3]
    ELSE IF x[2] # y[2] THEN x[2] > y[2]
    ELSE x[1] >= y[1]

\* x - y for x >= y
BigSub(x, y) ==
    LET d1 == x[1] - y[1]
        b1 == IF d1 < 0 THEN 1 ELSE 0
        d2 == x[2] - y[2] - b1
        b2 == IF d2 < 0 THEN 1 ELSE 0
        d3 == x[3] - y[3] - b2
        b3 == IF d3 < 0 THEN 1 ELSE 0
        d4 == x[4] - y[4] - b3
    IN  <<d1 + b1 * LimbBase, d2 + b2 * LimbBase, d3 + b3 * LimbBase, d4>>

\* x * n + c for small n, c
BigMulAdd(x, n, c) ==
    LET p1 == x[1] * n + c
        p2 == x[2] * n + (p1 \div LimbBase)
        p3 == x[3] * n + (p2 \div LimbBase)
        p4 == x[4] * n + (p3 \div LimbBase)
    IN  <<p1 % LimbBase, p2 % LimbBase, p3 % LimbBase, p4>>

BigHalf(x) ==
    <<(x[1] + (x[2] % 2) * LimbBase) \div 2,
      (x[2] + (x[3] % 2) * LimbBase) \div 2,
      (x[3] + (x[4] % 2) * LimbBase) \div 2,
      x[4] \div 2>>

BigOdd(x) == x[1] % 2 = 1

RECURSIVE IntBitLen(_)
IntBitLen(n) == IF n = 0 THEN 0 ELSE 1 + IntBitLen(n \div 2)

BigBitLen(x) ==
    IF x[4] # 0 THEN 3 * LimbBits + IntBitLen(x[4])
    ELSE IF x[3] # 0 THEN 2 * LimbBits + IntBitLen(x[3])
    ELSE IF x[2] # 0 THEN LimbBits + IntBitLen(x[2])
    ELSE IntBitLen(x[1])

(***************************************************************************)
(* A float is [m |-> significand, e |-> exponent] of value m * 2^e, with   *)
(* m of exactly MantBits bits, or FZero.  Only non-negative floats arise.  *)
(***************************************************************************)
FZero == [m |-> BigZero, e |-> 0]

\* Round-to-nearest, ties-to-even, of (X + fraction) * 2^e to MantBits bits:
\* rnd is the bit just below X, stk says whether anything lies below rnd.
RECURSIVE FRound(_, _, _, _)
FRound(X, e, rnd, stk) ==
    IF BigBitLen(X) > MantBits
    THEN FRound(BigHalf(X), e + 1, X[1] % 2, stk \/ rnd = 1)
    ELSE LET up == rnd = 1 /\ (stk \/ BigOdd(X))
             Y  == IF up THEN BigMulAdd(X, 1, 1) ELSE X
         IN  IF BigBitLen(Y) > MantBits
             THEN [m |-> BigHalf(Y), e |-> e + 1]
             ELSE [m |-> Y, e |-> e]

\* X * 2^k
RECURSIVE BigShiftLeft(_, _)
BigShiftLeft(X, k) ==
    IF k = 0 THEN X
    ELSE IF k >= LimbBits THEN BigShiftLeft(<<0, X[1], X[2], X[3]>>, k - LimbBits)
    ELSE BigMulAdd(X, 2^k, 0)

\* An exact value X * 2^e, X of at most MantBits bits, brought to a
\* MantBits-bit significand.
FNormal(X, e) ==
    IF X = BigZero THEN FZero
    ELSE LET k == MantBits - BigBitLen(X)
         IN  [m |-> BigShiftLeft(X, k), e |-> e - k]

\* float(n) for an int n >= 0
FFromInt(n) == FNormal(BigFromInt(n), 0)

\* q has two bits more than a significand
HasGuardBits(q) == q[4] >= 2^(MantBits + 1 - 3 * LimbBits)

\* The bits of a / b below the integer part, until the quotient q has two
\* bits more than a significand; the remainder r decides the sticky bit.
RECURSIVE DivBits(_, _, _, _)
DivBits(q, r, b, e) ==
    IF HasGuardBits(q)
    THEN FRound(q, e, 0, r # 0)
    ELSE DivBits(BigMulAdd(q, 2, IF 2 * r >= b THEN 1 ELSE 0), (2 * r) % b, b, e - 1)

\* Python's a / b for ints a >= 0, b >= 1: the correctly rounded quotient.
IntTrueDiv(a, b) ==
    IF a = 0 THEN FZero ELSE DivBits(BigFromInt(a \div b), a % b, b, 0)

\* Python's n * x for an int n >= 0 and a float x.
FMulInt(n, x) ==
    IF n = 0 \/ x = FZero THEN FZero ELSE FRound(BigMulAdd(x.m, n, 0), x.e, 0, FALSE)

\* The bits of N / M for significands N and M, as in DivBits.
RECURSIVE QuotBits(_, _, _, _)
QuotBits(q, r, M, e) ==
    IF HasGuardBits(q)
    THEN FRound(q, e, 0, r # BigZero)
    ELSE LET r2 == BigMulAdd(r, 2, 0)
             ge == BigGeq(r2, M)
         IN  QuotBits(BigMulAdd(q, 2, IF ge THEN 1 ELSE 0),
                      IF ge THEN BigSub(r2, M) ELSE r2, M, e - 1)

\* Python's n / x for an int n >= 0 and a float x > 0.
IntDivF(n, x) ==
    IF n = 0 THEN FZero
    ELSE LET N  == FFromInt(n)
             ge == BigGeq(N.m, x.m)
         IN  QuotBits(BigFromInt(IF ge THEN 1 ELSE 0),
                      IF ge THEN BigSub(N.m, x.m) ELSE N.m, x.m, N.e - x.e)

\* x > y for non-negative floats
FGreater(x, y) ==
    IF x = FZero THEN FALSE
    ELSE IF y = FZero THEN TRUE
    ELSE IF x.e # y.e THEN x.e > y.e
    ELSE x.m # y.m /\ BigGeq(x.m, y.m)

\* Python's int(x): truncation toward zero.
RECURSIVE BigShiftRight(_, _)
BigShiftRight(X, k) ==
    IF k = 0 \/ X = BigZero THEN X
    ELSE IF k >= LimbBits THEN BigShiftRight(<<X[2], X[3], X[4], 0>>, k - LimbBits)
    ELSE BigShiftRight(BigHalf(X), k - 1)

FTrunc(x) == IF x.e >= 0 THEN BigToInt(x.m) * 2^(x.e) ELSE BigToInt(BigShiftRight(x.m, -x.e))

(***************************************************************************)
(* resize_image, "Calculate new dimensions" (lines 71-100).  width and     *)
(* height are 0 for None: the code tests their truth value, and 0 and None *)
(* are both false.                                                         *)
(***************************************************************************)
Dims(w, h) == [kind |-> "dims", new_width |-> w, new_height |-> h]
NoDims == [kind |-> "missing", new_width |-> 0, new_height |-> 0]
ZeroDivision == [kind |-> "error", new_width |-> 0, new_height |-> 0]

\* FitBox with the comparison of line 77 turned round
FitBoxWrongSide(original_width, original_height, width, height) ==
    IF original_height = 0 THEN ZeroDivision
    ELSE LET aspect_ratio == IntTrueDiv(original_width, original_height)
         IN  IF FGreater(aspect_ratio, IntTrueDiv(width, height))
             THEN Dims(FTrunc(FMulInt(height, aspect_ratio)), height)
             ELSE IF aspect_ratio = FZero THEN ZeroDivision
             ELSE Dims(width, FTrunc(IntDivF(width, aspect_ratio)))

\* lines 72-84: both given, the aspect ratio kept
FitBox(original_width, original_height, width, height) ==
    IF original_height = 0 THEN ZeroDivision
    ELSE LET aspect_ratio == IntTrueDiv(original_width, original_height)
         IN  IF FGreater(IntTrueDiv(width, height), aspect_ratio)
             THEN Dims(FTrunc(FMulInt(height, aspect_ratio)), height)
             ELSE IF aspect_ratio = FZero THEN ZeroDivision
             ELSE Dims(width, FTrunc(IntDivF(width, aspect_ratio)))

\* lines 85-87: both given, the aspect ratio not kept
ForcedSize(width, height) == Dims(width, height)

\* lines 88-92: only width given
WidthOnly(original_width, original_height, width) ==
    IF original_width = 0 THEN ZeroDivision
    ELSE LET aspect_ratio == IntTrueDiv(original_height, original_width)
         IN  Dims(width, FTrunc(FMulInt(width, aspect_ratio)))

\* lines 93-97: only height given
HeightOnly(original_width, original_height, height) ==
    IF original_height = 0 THEN ZeroDivision
    ELSE LET aspect_ratio == IntTrueDiv(original_width, original_height)
         IN  Dims(FTrunc(FMulInt(height, aspect_ratio)), height)

\* NewDimensions that keeps the aspect ratio whatever maintain_aspect says
NewDimensionsAlwaysAspect(original_width, original_height, width, height, maintain_aspect) ==
    IF width # 0 /\ height # 0
    THEN FitBox(original_width, original_height, width, height)
    ELSE IF width # 0 THEN WidthOnly(original_width, original_height, width)
    ELSE IF height # 0 THEN HeightOnly(original_width, original_height, height)
    ELSE NoDims

NewDimensions(original_width, original_height, width, height, maintain_aspect) ==
    IF width # 0 /\ height # 0
    THEN IF maintain_aspect
         THEN FitBox(original_width, original_height, width, height)
         ELSE ForcedSize(width, height)
    ELSE IF width # 0 THEN WidthOnly(original_width, original_height, width)
    ELSE IF height # 0 THEN HeightOnly(original_width, original_height, height)
    ELSE NoDims

(***************************************************************************)
(* Strings are sequences of characters, so that concatenation, upper(),    *)
(* lower() and os.path.splitext are computed, not assumed.                 *)
(***************************************************************************)
LowerLetters ==
    <<"a", "b", "c", "d", "e", "f", "g", "h", "i", "j", "k", "l", "m",
      "n", "o", "p", "q", "r", "s", "t", "u", "v", "w", "x", "y", "z">>
UpperLetters ==
    <<"A", "B", "C", "D", "E", "F", "G", "H", "I", "J", "K", "L", "M",
      "N", "O", "P", "Q", "R", "S", "T", "U", "V", "W", "X", "Y", "Z">>

UpperChar(c) ==
    IF \E i \in DOMAIN LowerLetters : LowerLetters[i] = c
    THEN UpperLetters[CHOOSE i \in DOMAIN LowerLetters : LowerLetters[i] = c]
    ELSE c

LowerChar(c) ==
    IF \E i \in DOMAIN UpperLetters : UpperLetters[i] = c
    THEN LowerLetters[CHOOSE i \in DOMAIN UpperLetters : UpperLetters[i] = c]
    ELSE c

Upper(s) == [i \in DOMAIN s |-> UpperChar(s[i])]
Lower(s) == [i \in DOMAIN s |-> LowerChar(s[i])]

\* the last index of character c in s, 0 when there is none
LastIndexOf(s, c) ==
    IF \E i \in DOMAIN s : s[i] = c
    THEN CHOOSE i \in DOMAIN s : s[i] = c /\ \A j \in DOMAIN s : s[j] = c => j <= i
    ELSE 0

\* os.path.join of a folder and a relative name
Join(folder_path, filename) == folder_path \o <<"/">> \o filename

\* os.path.basename
Basename(path) == SubSeq(path, LastIndexOf(path, "/") + 1, Len(path))

\* os.path.splitext: the extension starts at the last dot of the last
\* component, unless only dots precede it there
SplitExt(path) ==
    LET sep == LastIndexOf(path, "/")
        dot == LastIndexOf(path, ".")
    IN  IF dot > sep /\ \E j \in (sep + 1)..(dot - 1) : path[j] # "."
        THEN <<SubSeq(path, 1, dot - 1), SubSeq(path, dot, Len(path))>>
        ELSE <<path, <<>>>>

\* Python's None, where a string is optional
None == <<"None">>

JPEG == <<"J", "P", "E", "G">>
JPG == <<"J", "P", "G">>
PNG == <<"P", "N", "G">>
GIF == <<"G", "I", "F">>

\* output_format.upper() in ['JPEG', 'JPG']
IsJpeg(output_format) == Upper(output_format) \in {JPEG, JPG}

\* resize_image, "Determine output format" (lines 106-107)
EffectiveFormat(output_format, img_format) ==
    IF output_format = None
    THEN IF img_format = None THEN PNG ELSE img_format
    ELSE output_format

(***************************************************************************)
(* resize_image, "Save the image" (lines 110-120).  An image is            *)
(* [mode, data, palette]: data is a sequence of pixels, a pixel a tuple of *)
(* channel values (an index into palette for mode P), and a palette entry  *)
(* is the colour of an index with its transparency as alpha.               *)
(***************************************************************************)
White == <<255, 255, 255>>

\* Pillow's 8-bit a*b/255
MulDiv255(a, b) == LET tmp == a * b + 128 IN ((tmp \div 256) + tmp) \div 256

\* Pillow's blend of a destination and a source channel under a mask value
Blend8(mask, dst, src) == MulDiv255(dst, 255 - mask) + MulDiv255(src, mask)

\* resized_img.convert('RGBA') of a mode P image
ConvertPToRGBA(img) ==
    [mode |-> "RGBA", data |-> [i \in DOMAIN img.data |-> img.palette[img.data[i][1]]],
     palette |-> <<>>]

\* rgb_img.paste(resized_img, mask=...) onto the white RGB image (line 116)
PastePixelNoMask(mode, px) ==
    IF mode = "LA" THEN <<px[1], px[1], px[1]>> ELSE <<px[1], px[2], px[3]>>

PastePixel(mode, px) ==
    IF mode = "RGBA"
    THEN <<Blend8(px[4], White[1], px[1]), Blend8(px[4], White[2], px[2]),
           Blend8(px[4], White[3], px[3])>>
    ELSE PastePixelNoMask(mode, px)

\* lines 112-117: the image handed to save() for JPEG
JpegImage(resized_img) ==
    IF resized_img.mode \in {"RGBA", "LA", "P"}
    THEN LET src == IF resized_img.mode = "P" THEN ConvertPToRGBA(resized_img) ELSE resized_img
         IN  [mode |-> "RGB", data |-> [i \in DOMAIN src.data |-> PastePixel(src.mode, src.data[i])],
              palette |-> <<>>]
    ELSE resized_img

\* lines 110-120: what is encoded, and with which options
SavedImage(resized_img, output_format, quality) ==
    IF IsJpeg(output_format)
    THEN [img |-> JpegImage(resized_img), format |-> output_format, quality |-> quality,
          optimize |-> TRUE]
    ELSE [img |-> resized_img, format |-> output_format, quality |-> 0, optimize |-> FALSE]

NoImage == [mode |-> "RGB", data |-> <<>>, palette |-> <<>>]
NotSaved == [img |-> NoImage, format |-> None, quality |-> 0, optimize |-> FALSE]

(***************************************************************************)
(* get_images_from_folder and the naming of batch_resize_images.           *)
(***************************************************************************)
\* line 30: the default extensions
Extensions ==
    {<<".", "j", "p", "g">>, <<".", "j", "p", "e", "g">>, <<".", "p", "n", "g">>,
     <<".", "b", "m", "p">>, <<".", "g", "i", "f">>, <<".", "t", "i", "f", "f">>,
     <<".", "w", "e", "b", "p">>}

\* lines 34-45: the paths of the image files of a folder, in no order
get_images_from_folder(folder_path, dir) ==
    IF ~dir.exists THEN {}
    ELSE {Join(folder_path, e.name) :
            e \in {d \in dir.entries : d.isfile /\ Lower(SplitExt(d.name)[2]) \in Extensions}}

\* OutputExt without the special case of JPEG
OutputExtFromFormatName(format, ext) ==
    IF format # None THEN <<".">> \o Lower(format) ELSE ext

\* lines 175-181: "Determine output extension"
OutputExt(format, ext) ==
    IF format # None
    THEN IF IsJpeg(format) THEN <<".", "j", "p", "g">> ELSE <<".">> \o Lower(format)
    ELSE ext

\* lines 171-185: the output path of an image
OutputPath(image_path, output_folder, format, prefix, suffix) ==
    LET filename == Basename(image_path)
        name == SplitExt(filename)[1]
        ext == SplitExt(filename)[2]
        output_filename == prefix \o name \o suffix \o OutputExt(format, ext)
    IN  Join(output_folder, output_filename)

\* every ordering of a finite set
Orderings(S) ==
    {f \in [1..Cardinality(S) -> S] : \A i, j \in 1..Cardinality(S) : f[i] = f[j] => i = j}

VARIABLES
    rpc,               \* resolve: "start", "resolved", "again" ("off" in the other specifications)
    img_size,          \* resolve: img.size of the image being resized
    req,               \* resolve: [width, height, maintain_aspect]
    dims,              \* resolve: what NewDimensions gave for img_size and req
    first,             \* resolve: the dimensions of the first resize
    tpc,               \* save: "resampled", "saved", "failed" ("off" in the other specifications)
    resized_img,       \* save: the resampled image
    img_format,        \* save: img.format of the source
    output_format,     \* save: the output_format argument
    saved,             \* save: what save() was given
    bpc,               \* batch: "start", "loop", "done" ("off" in the other specifications)
    args,              \* batch: the arguments of batch_resize_images
    input_dir,         \* batch: the input folder, [exists, entries]
    image_files,       \* batch: the list get_images_from_folder returned
    idx,               \* batch: the position of the for loop in image_files
    success_count,     \* batch
    failed_count,      \* batch
    opened,            \* batch: the paths given to Image.open, in order
    output,            \* batch: the files of the output folder
    summary            \* batch: the dict returned

resolveVars == <<rpc, img_size, req, dims, first>>
saveVars == <<tpc, resized_img, img_format, output_format, saved>>
batchVars == <<bpc, args, input_dir, image_files, idx, success_count, failed_count, opened,
               output, summary>>
vars == <<rpc, img_size, req, dims, first, tpc, resized_img, img_format, output_format, saved,
          bpc, args, input_dir, image_files, idx, success_count, failed_count, opened,
          output, summary>>

NoSummary == [total |-> -1, success |-> -1, failed |-> -1]

ResolveOff ==
    /\ rpc = "off"
    /\ img_size = <<1, 1>>
    /\ req = [width |-> 0, height |-> 0, maintain_aspect |-> TRUE]
    /\ dims = NoDims
    /\ first = NoDims

SaveOff ==
    /\ tpc = "off"
    /\ resized_img = NoImage
    /\ img_format = None
    /\ output_format = None
    /\ saved = NotSaved

BatchOff ==
    /\ bpc = "off"
    /\ args = [width |-> 0, height |-> 0, maintain_aspect |-> TRUE, output_format |-> None,
               prefix |-> <<>>, suffix |-> <<>>]
    /\ input_dir = [exists |-> FALSE, entries |-> {}]
    /\ image_files = <<>>
    /\ idx = 0
    /\ success_count = 0
    /\ failed_count = 0
    /\ opened = <<>>
    /\ output = {}
    /\ summary = NoSummary

(***************************************************************************)
(* The dimension computation of resize_image on every small source size    *)
(* and request, applied a second time to the size it produced.             *)
(***************************************************************************)
InitResolve ==
    /\ rpc = "start"
    /\ img_size \in (1..MaxSrc) \X (1..MaxSrc)
    /\ req \in [width : 0..MaxTarget, height : 0..MaxTarget, maintain_aspect : BOOLEAN]
    /\ dims = NoDims
    /\ first = NoDims
    /\ SaveOff
    /\ BatchOff

\* resize_image on an image of size img_size
ResolveFirst ==
    /\ rpc = "start"
    /\ dims' = NewDimensions(img_size[1], img_size[2], req.width, req.height, req.maintain_aspect)
    /\ first' = dims'
    /\ rpc' = "resolved"
    /\ UNCHANGED <<img_size, req, saveVars, batchVars>>

\* resize_image, with the same request, on the image the first call wrote
ResolveAgain ==
    /\ rpc = "resolved"
    /\ dims.kind = "dims" /\ dims.new_width >= 1 /\ dims.new_height >= 1
    /\ img_size' = <<dims.new_width, dims.new_height>>
    /\ dims' = NewDimensions(dims.new_width, dims.new_height, req.width, req.height, req.maintain_aspect)
    /\ rpc' = "again"
    /\ UNCHANGED <<req, first, saveVars, batchVars>>

NextResolve == ResolveFirst \/ ResolveAgain

SpecResolve == InitResolve /\ [][NextResolve]_vars

Resolved == rpc \in {"resolved", "again"}
BothGiven == req.width # 0 /\ req.height # 0

\* C1: with both dimensions given and the aspect ratio kept, the computed
\* dimensions fit the requested box and one of them equals its side.
C1_FitsBox ==
    (Resolved /\ BothGiven /\ req.maintain_aspect) =>
        /\ dims.kind = "dims"
        /\ dims.new_width <= req.width
        /\ dims.new_height <= req.height
        /\ (dims.new_width = req.width \/ dims.new_height = req.height)

\* a box whose height binds: the width computed is positive and smaller than asked
C1_Witness ==
    /\ rpc = "resolved" /\ BothGiven /\ req.maintain_aspect
    /\ dims.new_height = req.height
    /\ dims.new_width >= 1 /\ dims.new_width < req.width

\* C2: with exactly one dimension given, it is used unchanged and the other
\* is the floor of the exact quotient.
C2_ExactFloor ==
    /\ (Resolved /\ req.width # 0 /\ req.height = 0) =>
           dims = Dims(req.width, (req.width * img_size[2]) \div img_size[1])
    /\ (Resolved /\ req.width = 0 /\ req.height # 0) =>
           dims = Dims((req.height * img_size[1]) \div img_size[2], req.height)

\* C3: with both dimensions given and the aspect ratio not kept, the computed
\* dimensions are the requested ones.
C3_ForcedSize ==
    (Resolved /\ BothGiven /\ ~req.maintain_aspect) => dims = Dims(req.width, req.height)

\* a forced size whose aspect ratio is not the source's
C3_Witness ==
    /\ rpc = "resolved" /\ BothGiven /\ ~req.maintain_aspect
    /\ img_size[1] * req.height # img_size[2] * req.width
    /\ dims = Dims(req.width, req.height)

\* C4: the dimensions handed to the resampler are at least 1 by 1.
C4_PositiveDimensions ==
    (Resolved /\ dims.kind = "dims") => (dims.new_width >= 1 /\ dims.new_height >= 1)

\* C9: the same request on the image of the first result gives the first result.
C9_Idempotent == rpc = "again" => dims = first

(***************************************************************************)
(* The save step of resize_image on every one-pixel resampled image.       *)
(* (Image.resize to the size the image already has returns a copy, so the  *)
(* pixels of such a source are the pixels of resized_img.)                 *)
(***************************************************************************)
Channel == {0, 128, 255}
Quality == 95

PixelsOf(mode) ==
    CASE mode = "RGB" -> Channel \X Channel \X Channel
      [] mode = "RGBA" -> Channel \X Channel \X Channel \X Channel
      [] mode = "LA" -> Channel \X Channel
      [] mode = "L" -> {<<c>> : c \in Channel}

\* two-colour palettes: index 1 black, transparent or not, index 2 a grey
Palettes == {<<<<0, 0, 0, a>>, <<c, c, c, 255>>>> : a \in {0, 255}, c \in {128, 255}}

\* one-pixel images of every mode
Images ==
    UNION {{[mode |-> mode, data |-> <<px>>, palette |-> <<>>] : px \in PixelsOf(mode)} :
           mode \in {"RGB", "RGBA", "LA", "L"}}
    \cup {[mode |-> "P", data |-> <<<<i>>>>, palette |-> pal] : i \in 1..2, pal \in Palettes}

InitSave ==
    /\ tpc = "resampled"
    /\ resized_img \in Images
    /\ img_format \in {None, JPEG, PNG, GIF}
    /\ output_format \in {None, JPEG, <<"j", "p", "g">>, PNG}
    /\ saved = NotSaved
    /\ ResolveOff
    /\ BatchOff

\* lines 106-124 when save() returns
Save ==
    /\ tpc = "resampled"
    /\ saved' = SavedImage(resized_img, EffectiveFormat(output_format, img_format), Quality)
    /\ tpc' = "saved"
    /\ UNCHANGED <<resized_img, img_format, output_format, resolveVars, batchVars>>

\* lines 126-128: the encoder raised
SaveRaises ==
    /\ tpc = "resampled"
    /\ tpc' = "failed"
    /\ UNCHANGED <<resized_img, img_format, output_format, saved, resolveVars, batchVars>>

NextSave == Save \/ SaveRaises

SpecSave == InitSave /\ [][NextSave]_vars

\* pixel i of an image is fully transparent
FullyTransparent(img, i) ==
    CASE img.mode = "RGBA" -> img.data[i][4] = 0
      [] img.mode = "LA" -> img.data[i][2] = 0
      [] img.mode = "P" -> img.palette[img.data[i][1]][4] = 0
      [] OTHER -> FALSE

\* C8: an RGBA, LA or P image saved as JPEG is encoded in mode RGB, and its
\* fully transparent pixels are white.
C8_TransparentIsWhite ==
    (tpc = "saved" /\ IsJpeg(saved.format) /\ resized_img.mode \in {"RGBA", "LA", "P"}) =>
        /\ saved.img.mode = "RGB"
        /\ \A i \in DOMAIN resized_img.data :
              FullyTransparent(resized_img, i) => saved.img.data[i] = White

(***************************************************************************)
(* batch_resize_images on small folders.                                   *)
(***************************************************************************)
\* Most entries a folder holds.
MaxFiles == 2

InputFolder == <<"i", "n">>
OutputFolder == <<"o", "u", "t">>

File(name, decodable, format, size, mode) ==
    [name |-> name, isfile |-> TRUE, decodable |-> decodable, format |-> format,
     size |-> size, mode |-> mode]

\* The entries a folder is made of: images, a corrupt image, a sub-folder
\* with an image's name, and a file that is no image.
Entries ==
    {File(<<"a", ".", "j", "p", "g">>, TRUE, JPEG, <<4, 3>>, "RGB"),
     File(<<"a", ".", "p", "n", "g">>, TRUE, PNG, <<4, 1>>, "RGBA"),
     File(<<"b", ".", "J", "P", "G">>, TRUE, JPEG, <<2, 3>>, "L"),
     File(<<"c", ".", "j", "p", "e", "g">>, TRUE, JPEG, <<3, 3>>, "RGB"),
     File(<<"d", ".", "p", "n", "g">>, FALSE, None, <<0, 0>>, "RGB"),
     [File(<<"e", ".", "g", "i", "f">>, FALSE, None, <<0, 0>>, "RGB") EXCEPT !.isfile = FALSE],
     File(<<"n", ".", "t", "x", "t">>, FALSE, None, <<0, 0>>, "RGB")}

Affixes == {<<<<>>, <<>>>>, <<<<"t", "_">>, <<"_", "s">>>>}

Init ==
    /\ bpc = "start"
    /\ \E width \in {0, 3}, height \in {0, 2}, maintain_aspect \in BOOLEAN,
          format \in {None, JPEG, PNG}, affix \in Affixes :
          args = [width |-> width, height |-> height, maintain_aspect |-> maintain_aspect,
                  output_format |-> format, prefix |-> affix[1], suffix |-> affix[2]]
    /\ \/ input_dir = [exists |-> FALSE, entries |-> {}]
       \/ \E entries \in SUBSET Entries :
             /\ Cardinality(entries) <= MaxFiles
             /\ input_dir = [exists |-> TRUE, entries |-> entries]
    /\ image_files = <<>>
    /\ idx = 0
    /\ success_count = 0
    /\ failed_count = 0
    /\ opened = <<>>
    /\ output = {}
    /\ summary = NoSummary
    /\ ResolveOff
    /\ SaveOff

\* lines 152-159: no image found
BatchEmpty ==
    /\ bpc = "start"
    /\ get_images_from_folder(InputFolder, input_dir) = {}
    /\ summary' = [total |-> 0, success |-> 0, failed |-> 0]
    /\ bpc' = "done"
    /\ UNCHANGED <<args, input_dir, image_files, idx, success_count, failed_count, opened,
                   output, resolveVars, saveVars>>

\* lines 152-168: os.listdir gives the entries in any order
BatchStart ==
    /\ bpc = "start"
    /\ get_images_from_folder(InputFolder, input_dir) # {}
    /\ image_files' \in Orderings(get_images_from_folder(InputFolder, input_dir))
    /\ success_count' = 0
    /\ failed_count' = 0
    /\ idx' = 1
    /\ bpc' = "loop"
    /\ UNCHANGED <<args, input_dir, opened, output, summary, resolveVars, saveVars>>

\* the input file at a path
EntryAt(image_path) == CHOOSE e \in input_dir.entries : Join(InputFolder, e.name) = image_path

\* Counted when a failure ends the loop
CountedStopsOnFailure(ok) ==
    /\ success_count' = IF ok THEN success_count + 1 ELSE success_count
    /\ failed_count' = IF ok THEN failed_count ELSE failed_count + 1
    /\ idx' = IF ok THEN idx + 1 ELSE Len(image_files) + 1

\* lines 188-192: the loop counts what resize_image returned and goes on
Counted(ok) ==
    /\ success_count' = IF ok THEN success_count + 1 ELSE success_count
    /\ failed_count' = IF ok THEN failed_count ELSE failed_count + 1
    /\ idx' = idx + 1

InLoop == bpc = "loop" /\ idx <= Len(image_files)

\* lines 170-192: one turn of the for loop.  resize_image opens the image,
\* returns False when Image.open raises (lines 126-128) or when neither width
\* nor height is given (lines 98-100), and otherwise computes the dimensions;
\* then resize() or save() raises (lines 126-128), or the image is written,
\* replacing a file of that path (lines 103-124).  What resize() makes of a
\* zero dimension is the library's affair: both outcomes are allowed.
resize_image ==
    /\ InLoop
    /\ LET image_path == image_files[idx]
           img == EntryAt(image_path)
           output_path == OutputPath(image_path, OutputFolder, args.output_format,
                                     args.prefix, args.suffix)
           new == NewDimensions(img.size[1], img.size[2], args.width, args.height,
                                args.maintain_aspect)
           written == SavedImage([mode |-> img.mode, data |-> <<>>, palette |-> <<>>],
                                 EffectiveFormat(args.output_format, img.format), Quality)
       IN  \/ /\ ~img.decodable
              /\ Counted(FALSE)
              /\ UNCHANGED output
           \/ /\ img.decodable
              /\ new.kind = "missing"
              /\ Counted(FALSE)
              /\ UNCHANGED output
           \/ /\ img.decodable
              /\ new.kind # "missing"
              /\ Counted(FALSE)
              /\ UNCHANGED output
           \/ /\ img.decodable
              /\ new.kind = "dims"
              /\ output' = {o \in output : o.path # output_path} \cup
                           {[path |-> output_path, src |-> image_path,
                             format |-> written.format, mode |-> written.img.mode,
                             size |-> <<new.new_width, new.new_height>>]}
              /\ Counted(TRUE)
    /\ opened' = Append(opened, image_files[idx])
    /\ UNCHANGED <<bpc, args, input_dir, image_files, summary, resolveVars, saveVars>>

\* lines 194-203
BatchReturn ==
    /\ bpc = "loop"
    /\ idx > Len(image_files)
    /\ summary' = [total |-> Len(image_files), success |-> success_count,
                   failed |-> failed_count]
    /\ bpc' = "done"
    /\ UNCHANGED <<args, input_dir, image_files, idx, success_count, failed_count, opened,
                   output, resolveVars, saveVars>>

Next ==
    \/ BatchEmpty
    \/ BatchStart
    \/ resize_image
    \/ BatchReturn

Spec == Init /\ [][Next]_vars

ImagePaths == get_images_from_folder(InputFolder, input_dir)

\* C5: the loop goes on after every failure: the images attempted so far are
\* the first idx - 1 of the list, each counted once; and the batch returns
\* having attempted every enumerated image exactly once, with total = the
\* number of images and success + failed = total.
C5_BatchCompletes ==
    /\ bpc = "loop" =>
          /\ idx <= Len(image_files) + 1
          /\ opened = SubSeq(image_files, 1, idx - 1)
          /\ success_count + failed_count = idx - 1
    /\ bpc = "done" =>
          /\ summary.total = Cardinality(ImagePaths)
          /\ summary.success >= 0 /\ summary.failed >= 0
          /\ summary.success + summary.failed = summary.total
          /\ Len(opened) = summary.total
          /\ \A path \in ImagePaths :
                Cardinality({i \in DOMAIN opened : opened[i] = path}) = 1

\* a finished batch in which an image was written after another had failed to open
C5_Witness ==
    /\ bpc = "done"
    /\ \E i, j \in DOMAIN opened :
          /\ i < j
          /\ ~EntryAt(opened[i]).decodable
          /\ \E o \in output : o.src = opened[j]
    /\ summary.failed >= 1 /\ summary.success >= 1

\* C6: without width and height no image is opened and none is counted.
C6_MissingDimensionIsFatal ==
    (bpc # "off" /\ args.width = 0 /\ args.height = 0) =>
        (opened = <<>> /\ success_count = 0 /\ failed_count = 0)

\* extensionFor of the specification
ExtensionFor(format) ==
    IF Upper(format) \in {JPEG, JPG} THEN <<".", "j", "p", "g">> ELSE <<".">> \o Lower(format)

Stem(path) == SplitExt(Basename(path))[1]

\* C7: an output file is named prefix + stem + suffix + the extension of
\* the format it was encoded in.
C7_NameFromEffectiveFormat ==
    \A o \in output :
        o.path = Join(OutputFolder,
                      args.prefix \o Stem(o.src) \o args.suffix \o ExtensionFor(o.format))

\* C7 as amended: the extension is that of the requested format, and the
\* source's own extension when no format is requested.
C7_NameFromRequestOrSource ==
    \A o \in output :
        o.path = Join(OutputFolder,
                      args.prefix \o Stem(o.src) \o args.suffix \o
                      (IF args.output_format # None
                       THEN ExtensionFor(args.output_format)
                       ELSE SplitExt(Basename(o.src))[2]))

\* an image written with no format requested, whose extension is not its format's
C7_Witness ==
    \E o \in output :
        /\ args.output_format = None
        /\ SplitExt(Basename(o.src))[2] # ExtensionFor(o.format)

\* C10: distinct input files have distinct output paths, and the output
\* folder holds as many files as were counted successful.
C10_DistinctOutputs ==
    bpc \in {"loop", "done"} =>
        /\ \A i, j \in DOMAIN image_files :
              i # j => OutputPath(image_files[i], OutputFolder, args.output_format,
                                  args.prefix, args.suffix)
                       # OutputPath(image_files[j], OutputFolder, args.output_format,
                                    args.prefix, args.suffix)
        /\ Cardinality(output) = success_count
====
